---- MODULE Spec2Model ----
(***************************************************************************)
(* Model of main.py: the interview-preparation research script.            *)
(*                                                                         *)
(* Python strings are sequences of one-character strings, so that lower(), *)
(* strip(), split(), replace() and the `in` substring test are computed    *)
(* character by character.  Urls and full names are opaque identifiers.    *)
(***************************************************************************)
EXTENDS Integers, Sequences, FiniteSets, TLC

(***************************************************************************)
(* Python values and string operations                                     *)
(***************************************************************************)

\* Python's None (a one-element tuple whose element is no character).
None == <<"None">>

\* A key that is absent from a dict.
Missing == <<"Missing">>

\* str / None truthiness: None and "" are false.
Truthy(v) == v # None /\ v # <<>>

\* dict.get(key): an absent key reads as None.
DictGet(v) == IF v = Missing THEN None ELSE v

\* dict.get(key, default): an absent key reads as the default.
DictGetDefault(v, default) == IF v = Missing THEN default ELSE v

\* (v or ""): a falsy value is replaced by the empty string.
OrEmpty(v) == IF Truthy(v) THEN v ELSE <<>>

Range(seq) == {seq[i] : i \in DOMAIN seq}

UpperChars == <<"A", "B", "C", "D", "E", "F", "G", "H", "I", "J", "K", "L", "M", "N", "O", "P", "Q", "R", "S", "T", "U", "V", "W", "X", "Y", "Z">>

LowerChars == <<"a", "b", "c", "d", "e", "f", "g", "h", "i", "j", "k", "l", "m", "n", "o", "p", "q", "r", "s", "t", "u", "v", "w", "x", "y", "z">>

\* the lowercase letter of each uppercase letter
LowerOf == [c \in Range(UpperChars) |-> LowerChars[CHOOSE i \in DOMAIN UpperChars : UpperChars[i] = c]]

LowerChar(c) == IF c \in DOMAIN LowerOf THEN LowerOf[c] ELSE c

\* str.lower()
Lower(s) == [i \in DOMAIN s |-> LowerChar(s[i])]

\* `sub in s` on strings
Contains(s, sub) == \E i \in 0..(Len(s) - Len(sub)) : SubSeq(s, i + 1, i + Len(sub)) = sub

IsSpace(c) == c = " "

RECURSIVE LStrip(_)
LStrip(s) == IF s # <<>> /\ IsSpace(Head(s)) THEN LStrip(Tail(s)) ELSE s

RECURSIVE RStrip(_)
RStrip(s) == IF s # <<>> /\ IsSpace(s[Len(s)]) THEN RStrip(SubSeq(s, 1, Len(s) - 1)) ELSE s

\* str.strip()
Strip(s) == RStrip(LStrip(s))

\* positions where a word of s starts: a non-space at the start or after a space
WordStarts(s) == {i \in DOMAIN s : ~IsSpace(s[i]) /\ (i = 1 \/ IsSpace(s[i - 1]))}

\* the last position of the word that starts at i
WordEnd(s, i) == CHOOSE j \in i..Len(s) : (j = Len(s) \/ IsSpace(s[j + 1])) /\ \A k \in i..j : ~IsSpace(s[k])

\* the n-th element of a set of numbers, in increasing order
Nth(S, n) == CHOOSE x \in S : Cardinality({y \in S : y < x}) = n - 1

\* str.split(): the words between runs of whitespace
Split(s) == [n \in 1..Cardinality(WordStarts(s)) |-> SubSeq(s, Nth(WordStarts(s), n), WordEnd(s, Nth(WordStarts(s), n)))]

\* str.replace(' ', '')
RemoveSpaces(s) == SelectSeq(s, LAMBDA c : c # " ")

\* any(x in s for x in seq)
AnyIn(seq, s) == \E i \in DOMAIN seq : Contains(s, seq[i])

\* list[:n]
Take(list, n) == SubSeq(list, 1, IF n < Len(list) THEN n ELSE Len(list))

RECURSIVE SeqsUpTo(_, _)
SeqsUpTo(S, n) == IF n = 0 THEN {<<>>} ELSE LET prev == SeqsUpTo(S, n - 1) IN prev \cup {Append(q, x) : q \in {p \in prev : Len(p) = n - 1}, x \in S}

(***************************************************************************)
(* Bounds of the model                                                     *)
(***************************************************************************)

\* most raw repository records gathered over all queries (direct calls)
MaxRaw == 3

\* most items in one search response (direct calls)
MaxItems == 2

(***************************************************************************)
(* Section 3: GitHub Resources -- get_github_resources                     *)
(***************************************************************************)

\* default of the max_results parameter
DefaultMaxResults == 8

\* the five base query templates, in order
BaseQueries == <<"company interview questions", "company technical interview", "company coding interview", "company interview preparation", "company interview experience">>

\* the four role query templates, in order
RoleQueries == <<"company role interview", "company role interview questions", "company role technical interview", "role interview preparation company">>

\* `job_role and job_role.strip()`
RoleGiven(job_role) == Truthy(job_role) /\ Truthy(Strip(job_role))

\* job_role = job_role.strip().lower() under the guard, else unchanged
NormalizedRole(job_role) == IF RoleGiven(job_role) THEN Lower(Strip(job_role)) ELSE job_role

\* the query list: role queries first when a role is given
BuildQueries(job_role) == IF RoleGiven(job_role) THEN RoleQueries \o BaseQueries ELSE BaseQueries

FixedKeywords == <<<<"i", "n", "t", "e", "r", "v", "i", "e", "w", " ", "q", "u", "e", "s", "t", "i", "o", "n">>, <<"h", "i", "r", "i", "n", "g", " ", "p", "r", "o", "c", "e", "s", "s">>, <<"c", "o", "d", "i", "n", "g", " ", "c", "h", "a", "l", "l", "e", "n", "g", "e">>, <<"a", "s", "s", "e", "s", "s", "m", "e", "n", "t">>, <<"i", "n", "t", "e", "r", "v", "i", "e", "w", " ", "e", "x", "p", "e", "r", "i", "e", "n", "c", "e">>, <<"i", "n", "t", "e", "r", "v", "i", "e", "w", " ", "p", "r", "e", "p">>, <<"t", "e", "c", "h", "n", "i", "c", "a", "l", " ", "i", "n", "t", "e", "r", "v", "i", "e", "w">>, <<"o", "n", "s", "i", "t", "e", " ", "i", "n", "t", "e", "r", "v", "i", "e", "w">>, <<"o", "n", "l", "i", "n", "e", " ", "a", "s", "s", "e", "s", "s", "m", "e", "n", "t">>, <<"l", "e", "e", "t", "c", "o", "d", "e">>, <<"i", "n", "t", "e", "r", "v", "i", "e", "w", " ", "p", "r", "o", "b", "l", "e", "m">>>>

\* interview_keywords, extended with the role and its space-stripped form
InterviewKeywords(job_role) == IF RoleGiven(job_role) THEN FixedKeywords \o <<Lower(Strip(job_role)), RemoveSpaces(Lower(Strip(job_role)))>> ELSE FixedKeywords

\* classes derived from Exception that the calls of the script can raise
ExceptionClasses == {"ConnectionError", "Timeout", "JSONDecodeError", "DownloadError", "GoogleAPIError"}

\* what lines 238-241 raise on a response: the exception of requests.get, or
\* the one of response.json() on a 200 body that is not JSON
RaisedBy(resp) == IF resp.exc # "none" THEN resp.exc ELSE IF resp.status = 200 /\ resp.body = "malformed" THEN "JSONDecodeError" ELSE "none"

\* an except clause that names one class only
FetchCatchesTimeoutOnly(e) == e = "Timeout"

\* `except Exception: continue` (line 244)
FetchCatches(e) == e \in ExceptionClasses

\* what one query adds to all_results (lines 239-241): the items of a 200
\* response whose body parses; data.get("items", []) of a body without
\* "items" is the empty list
ItemsOf(resp) == IF RaisedBy(resp) # "none" \/ resp.status # 200 THEN <<>> ELSE IF resp.body = "items" THEN resp.items ELSE <<>>

\* repo.get("name", "")
NameText(repo) == DictGetDefault(repo.name, <<>>)

\* the description read without the `or ""`
DescriptionTextNoDefault(repo) == DictGet(repo.description)

\* (repo.get("description") or "")
DescriptionText(repo) == OrEmpty(DictGet(repo.description))

\* .lower() on a value that is not a string raises AttributeError
LowerRaises(repo) == NameText(repo) = None \/ DescriptionText(repo) = None

\* content = f"{name} {description}", both lowercased
Content(repo) == Lower(NameText(repo)) \o <<" ">> \o Lower(DescriptionText(repo))

\* the skip test without the seen-set lookup
SkipUrlNoSeen(repo_url, seen) == repo_url \in {"None", ""}

\* `not repo_url or repo_url in seen_urls`; "None" is what repo.get("html_url")
\* gives for a record without the key
SkipUrl(repo_url, seen) == repo_url \in {"None", ""} \/ repo_url \in seen

\* the company gate left out
CompanyGateOpen(content, company_lower) == TRUE

\* `company_lower not in content` negated
CompanyGate(content, company_lower) == Contains(content, company_lower)

\* any(keyword in content for keyword in interview_keywords)
KeywordGate(content, keywords) == AnyIn(keywords, content)

\* is_role_specific
IsRoleSpecific(content, job_role) == RoleGiven(job_role) /\ AnyIn(Split(Lower(job_role)), content)

\* the limit test with > for >=
EnoughResultsStrict(n, max) == n > max * 2

\* len(company_resources) >= max_results * 2
EnoughResults(n, max) == n >= max * 2

\* list.sort(key=lambda x: not x.get("role_specific", False)): a stable
\* sort on a boolean key, False (role specific) before True
\* an insertion that also moves x before an equal key (unstable)
RECURSIVE InsertSortedUnstable(_, _)
InsertSortedUnstable(sorted, x) == IF sorted = <<>> THEN <<x>> ELSE LET last == sorted[Len(sorted)] IN IF x.role_specific THEN Append(InsertSortedUnstable(SubSeq(sorted, 1, Len(sorted) - 1), x), last) ELSE Append(sorted, x)

RECURSIVE InsertSorted(_, _)
InsertSorted(sorted, x) == IF sorted = <<>> THEN <<x>> ELSE LET last == sorted[Len(sorted)] IN IF (~last.role_specific) /\ x.role_specific THEN Append(InsertSorted(SubSeq(sorted, 1, Len(sorted) - 1), x), last) ELSE Append(sorted, x)

RECURSIVE SortRoleFirst(_)
SortRoleFirst(list) == IF list = <<>> THEN <<>> ELSE InsertSorted(SortRoleFirst(SubSeq(list, 1, Len(list) - 1)), list[Len(list)])

\* the role-priority step: sort only when a role was given
Prioritize(list, job_role) == IF RoleGiven(job_role) THEN SortRoleFirst(list) ELSE list

\* del resource["role_specific"]
StripRoleField(list) == [i \in DOMAIN list |-> [name |-> list[i].name, url |-> list[i].url]]

\* company_resources[:max_results], or [] when nothing was accepted
Returned(list, max) == IF list # <<>> THEN Take(list, max) ELSE <<>>

(***************************************************************************)
(* Repository records the search endpoint may return                       *)
(***************************************************************************)

\* passes both gates by its name alone; description is null
RepoA == [full_name |-> "o/a", name |-> <<"M", "e", "t", "a", "-", "L", "e", "e", "t", "C", "o", "d", "e">>, description |-> None, html_url |-> "u1"]

\* passes both gates, mentions the role words
RepoB == [full_name |-> "o/b", name |-> <<"q", "a", "d", "e", "v", "-", "p", "r", "e", "p">>, description |-> <<"M", "E", "T", "A", " ", "a", "s", "s", "e", "s", "s", "m", "e", "n", "t">>, html_url |-> "u2"]

\* same url as RepoA, names the company, no interview keyword
RepoC == [full_name |-> "o/c", name |-> <<"m", "e", "t", "a", "-", "n", "o", "t", "e", "s">>, description |-> <<"N", "o", "t", "e", "s">>, html_url |-> "u1"]

\* interview keywords but not the company
RepoD == [full_name |-> "o/d", name |-> <<"l", "e", "e", "t", "c", "o", "d", "e">>, description |-> <<"h", "i", "r", "i", "n", "g", " ", "p", "r", "o", "c", "e", "s", "s">>, html_url |-> "u3"]

\* same url as RepoA, another name, passes both gates
RepoE == [full_name |-> "o/e", name |-> <<"m", "e", "t", "a">>, description |-> <<"I", "n", "t", "e", "r", "v", "i", "e", "w", " ", "P", "r", "e", "p">>, html_url |-> "u1"]

\* passes both gates but has no url
RepoF == [full_name |-> "o/f", name |-> <<"m", "e", "t", "a", "-", "l", "e", "e", "t", "c", "o", "d", "e">>, description |-> <<>>, html_url |-> "None"]

\* passes both gates by its name alone; no description key
RepoG == [full_name |-> "o/g", name |-> <<"M", "e", "t", "a", "-", "A", "s", "s", "e", "s", "s", "m", "e", "n", "t">>, description |-> Missing, html_url |-> "u4"]

\* names the company and the role (space-stripped), no fixed keyword
RepoH == [full_name |-> "o/h", name |-> <<"m", "e", "t", "a">>, description |-> <<"Q", "A", "D", "e", "v", " ", "t", "i", "p", "s">>, html_url |-> "u5"]

\* all_results and the responses hold the records by these keys
Repos == [A |-> RepoA, B |-> RepoB, C |-> RepoC, D |-> RepoD, E |-> RepoE, F |-> RepoF, G |-> RepoG, H |-> RepoH]

Pool == DOMAIN Repos

\* arguments of direct calls
DirectCompanies == {<<"M", "e", "t", "a">>}

DirectRoles == {None, <<" ", " ">>, <<" ", "Q", "A", " ", "D", "e", "v", " ">>}

DirectMaxResults == {1, 2}

\* how a GET can fail: an exception of requests.get, a status other than
\* 200, a 200 whose body is not JSON
FailureResponses == {[exc |-> e, status |-> 0, body |-> "none", items |-> <<>>] : e \in {"ConnectionError", "Timeout"}} \cup {[exc |-> "none", status |-> 403, body |-> "no_items", items |-> <<>>], [exc |-> "none", status |-> 200, body |-> "malformed", items |-> <<>>]}

\* a 200 whose JSON body has no "items"
NoItemsResponse == [exc |-> "none", status |-> 200, body |-> "no_items", items |-> <<>>]

\* the failures tried in direct calls
DirectFailures == {f \in FailureResponses : f.exc = "Timeout"}

\* what a GET can come back with: one of the failures F, or a 200 with a
\* list of at most n records of P
Responses(F, P, n) == F \cup {[exc |-> "none", status |-> 200, body |-> "items", items |-> l] : l \in SeqsUpTo(P, n)}

NoResponse == [exc |-> "none", status |-> 0, body |-> "none", items |-> <<>>]

Min(a, b) == IF a < b THEN a ELSE b

\* records the main script's search can return
MainPool == {"A", "C"}

(***************************************************************************)
(* get_improved_fallback_resources                                         *)
(***************************************************************************)

\* keys of the company mapping, in insertion (iteration) order
FallbackCompanyKeys == <<<<"a", "m", "a", "z", "o", "n">>, <<"g", "o", "o", "g", "l", "e">>, <<"f", "a", "c", "e", "b", "o", "o", "k">>, <<"m", "e", "t", "a">>, <<"m", "i", "c", "r", "o", "s", "o", "f", "t">>, <<"a", "p", "p", "l", "e">>, <<"n", "e", "t", "f", "l", "i", "x">>, <<"t", "e", "s", "l", "a">>>>

\* values of the company mapping, in the same order
FallbackCompanyValues == <<<<[name |-> "Amazon Interview Guide", url |-> "https://github.com/jwasham/coding-interview-university"], [name |-> "Amazon Assessment Questions", url |-> "https://github.com/twowaits/SDE-Interview-Questions/tree/master/Amazon"], [name |-> "Amazon Interview Questions", url |-> "https://github.com/krishnadey30/LeetCode-Questions-CompanyWise/blob/master/amazon_alltime.txt"]>>,
    <<[name |-> "Google Interview Questions", url |-> "https://github.com/mgechev/google-interview-preparation-problems"], [name |-> "Google Tech Dev Guide", url |-> "https://github.com/jayshah19949596/CodingInterviews"], [name |-> "Google Interview Resources", url |-> "https://github.com/krishnadey30/LeetCode-Questions-CompanyWise/blob/master/google_alltime.txt"]>>,
    <<[name |-> "Meta/Facebook Interview Questions", url |-> "https://github.com/twowaits/SDE-Interview-Questions/tree/master/Facebook"], [name |-> "Meta Technical Interview Guide", url |-> "https://github.com/khanhnamle1994/cracking-the-data-science-interview"], [name |-> "Facebook Interview Resources", url |-> "https://github.com/krishnadey30/LeetCode-Questions-CompanyWise/blob/master/facebook_alltime.txt"]>>,
    <<[name |-> "Meta/Facebook Interview Questions", url |-> "https://github.com/twowaits/SDE-Interview-Questions/tree/master/Facebook"], [name |-> "Meta Technical Interview Guide", url |-> "https://github.com/khanhnamle1994/cracking-the-data-science-interview"], [name |-> "Facebook Interview Resources", url |-> "https://github.com/krishnadey30/LeetCode-Questions-CompanyWise/blob/master/facebook_alltime.txt"]>>,
    <<[name |-> "Microsoft Interview Questions", url |-> "https://github.com/twowaits/SDE-Interview-Questions/tree/master/Microsoft"], [name |-> "Microsoft Interview Preparation", url |-> "https://github.com/Olshansk/interview"], [name |-> "Microsoft Interview Resources", url |-> "https://github.com/krishnadey30/LeetCode-Questions-CompanyWise/blob/master/microsoft_alltime.txt"]>>,
    <<[name |-> "Apple Interview Preparation", url |-> "https://github.com/hxu296/leetcode-company-wise-problems-2022"], [name |-> "Apple Interview Questions", url |-> "https://github.com/krishnadey30/LeetCode-Questions-CompanyWise/blob/master/apple_alltime.txt"], [name |-> "Apple Technical Interview", url |-> "https://github.com/checkcheckzz/system-design-interview"]>>,
    <<[name |-> "Netflix Interview Questions", url |-> "https://github.com/twowaits/SDE-Interview-Questions"], [name |-> "Netflix Technical Interview", url |-> "https://github.com/yangshun/tech-interview-handbook"]>>,
    <<[name |-> "Tesla Interview Prep", url |-> "https://github.com/krishnadey30/LeetCode-Questions-CompanyWise"], [name |-> "Tesla Technical Questions", url |-> "https://github.com/h5bp/Front-end-Developer-Interview-Questions"]>>>>

\* keys of role_resources, in insertion (iteration) order
FallbackRoleKeys == <<<<"s", "o", "f", "t", "w", "a", "r", "e", " ", "e", "n", "g", "i", "n", "e", "e", "r">>, <<"f", "r", "o", "n", "t", "e", "n", "d">>, <<"b", "a", "c", "k", "e", "n", "d">>, <<"d", "a", "t", "a", " ", "s", "c", "i", "e", "n", "t", "i", "s", "t">>, <<"m", "a", "c", "h", "i", "n", "e", " ", "l", "e", "a", "r", "n", "i", "n", "g">>, <<"d", "e", "v", "o", "p", "s">>>>

\* values of role_resources, in the same order
FallbackRoleValues == <<<<[name |-> "Software Engineering Interview Preparation", url |-> "https://github.com/jwasham/coding-interview-university"], [name |-> "Software Engineer Coding Questions", url |-> "https://github.com/twowaits/SDE-Interview-Questions"]>>,
    <<[name |-> "Frontend Interview Questions", url |-> "https://github.com/h5bp/Front-end-Developer-Interview-Questions"], [name |-> "Frontend Interview Handbook", url |-> "https://github.com/yangshun/front-end-interview-handbook"]>>,
    <<[name |-> "Backend Interview Questions", url |-> "https://github.com/arialdomartini/Back-End-Developer-Interview-Questions"], [name |-> "System Design for Backend Engineers", url |-> "https://github.com/donnemartin/system-design-primer"]>>,
    <<[name |-> "Data Science Interview Resources", url |-> "https://github.com/khanhnamle1994/cracking-the-data-science-interview"], [name |-> "Data Science Interview Questions", url |-> "https://github.com/alexeygrigorev/data-science-interviews"]>>,
    <<[name |-> "Machine Learning Interviews", url |-> "https://github.com/chiphuyen/machine-learning-systems-design"], [name |-> "ML Interview Guide", url |-> "https://github.com/khangich/machine-learning-interview"]>>,
    <<[name |-> "DevOps Interview Questions", url |-> "https://github.com/bregman-arie/devops-exercises"], [name |-> "DevOps Resource Collection", url |-> "https://github.com/MichaelCade/90DaysOfDevOps"]>>>>

\* the company match without the `company_lower in key` direction
CompanyMatchesKeyInInput(company_lower, key) == Contains(company_lower, key)

\* `key in company_lower or company_lower in key`
CompanyMatches(company_lower, key) == Contains(company_lower, key) \/ Contains(key, company_lower)

\* `role_key in job_role_lower or any(term in job_role_lower for term in role_key.split())`
RoleMatches(job_role_lower, role_key) == Contains(job_role_lower, role_key) \/ AnyIn(Split(role_key), job_role_lower)

\* lines 396-402: the value of the first matching key, [] when none matches
CompanySpecific(company) == LET hits == {i \in DOMAIN FallbackCompanyKeys : CompanyMatches(Lower(company), FallbackCompanyKeys[i])} IN IF hits = {} THEN <<>> ELSE FallbackCompanyValues[CHOOSE i \in hits : \A j \in hits : i <= j]

\* a lookup that finds no role
RoleSpecificNone(role) == <<>>

\* lines 406-413: the value of the first matching role key, [] when none matches
RoleSpecific(role) == LET hits == {i \in DOMAIN FallbackRoleKeys : RoleMatches(Lower(role), FallbackRoleKeys[i])} IN IF hits = {} THEN <<>> ELSE FallbackRoleValues[CHOOSE i \in hits : \A j \in hits : i <= j]

\* lines 395-421
FallbackResources(company, role) == LET company_specific == CompanySpecific(company) IN IF Truthy(role) /\ company_specific # <<>> /\ RoleSpecific(role) # <<>> THEN RoleSpecific(role) \o company_specific ELSE company_specific

\* arguments of direct calls of get_improved_fallback_resources
FallbackCompanies == {<<"f", "a", "c", "e", "b", "o", "o", "k">>, <<"F", "a", "c", "e", "b", "o", "o", "k">>, <<"F", "A", "C", "E", "B", "O", "O", "K">>, <<"u", "n", "k", "n", "o", "w", "n", "c", "o", "r", "p", "1", "2", "3">>, <<"M", "e", "t", "a", " ", "P", "l", "a", "t", "f", "o", "r", "m", "s">>, <<"a">>, <<"m", "e", "t", "a", "m", "a", "z", "o", "n">>, <<"T", "e", "s", "l", "a">>, <<"n", "e", "t", "f", "l", "i", "x", " ", "i", "n", "c">>, <<"e">>}

FallbackRoles == {None, <<>>, <<"f", "r", "o", "n", "t", "e", "n", "d">>, <<"F", "r", "o", "n", "t", "e", "n", "d", " ", "D", "e", "v", "e", "l", "o", "p", "e", "r">>, <<"c", "h", "e", "f">>, <<"E", "n", "g", "i", "n", "e", "e", "r">>, <<"d", "a", "t", "a", " ", "a", "n", "a", "l", "y", "s", "t">>, <<"D", "e", "v", "O", "p", "s">>}

(***************************************************************************)
(* Section 1 and 2: the overview and the video searches                    *)
(***************************************************************************)

\* an except clause that lets the model's errors through
OverviewCatchesNothing(e) == FALSE

\* `except Exception as e` of generate_company_overview (line 115)
OverviewCatches(e) == e \in ExceptionClasses

\* an except clause that lets the extractor's errors through
VideoCatchesNothing(e) == FALSE

\* `except Exception as e` of search_youtube_videos (line 166)
VideoCatches(e) == e \in ExceptionClasses

\* what model.generate_content can do: raise, or answer with a text
ValidationOutcomes == {[exc |-> "GoogleAPIError", text |-> <<>>], [exc |-> "none", text |-> <<"Y", "e", "s", ".">>], [exc |-> "none", text |-> <<"N", "o">>]}

OverviewOutcomes == {[exc |-> "GoogleAPIError", text |-> <<>>], [exc |-> "none", text |-> <<"M", "e", "t", "a", " ", "b", "u", "i", "l", "d", "s", " ", "a", "p", "p", "s">>], [exc |-> "none", text |-> <<"I", "n", "s", "u", "f", "f", "i", "c", "i", "e", "n", "t", " ", "i", "n", "f", "o", "r", "m", "a", "t", "i", "o", "n">>], [exc |-> "none", text |-> <<"I", " ", "c", "a", "n", "n", "o", "t", " ", "v", "e", "r", "i", "f", "y", " ", "t", "h", "a", "t">>]}

\* the validation test without lower()
CompanyExistsCaseSensitive(text) == Contains(text, <<"y", "e", "s">>)

\* line 78
CompanyExists(text) == Contains(Lower(text), <<"y", "e", "s">>)

\* line 108
UncertaintyPhrases == <<<<"I", " ", "d", "o", "n", "'", "t", " ", "h", "a", "v", "e">>, <<"I", " ", "c", "a", "n", "n", "o", "t">>, <<"I", "'", "m", " ", "n", "o", "t", " ", "a", "b", "l", "e">>, <<"i", "n", "s", "u", "f", "f", "i", "c", "i", "e", "n", "t", " ", "i", "n", "f", "o", "r", "m", "a", "t", "i", "o", "n">>>>

\* line 109: any(phrase in overview.lower() for phrase in uncertainty_phrases)
IsUncertain(text) == AnyIn(UncertaintyPhrases, Lower(text))

\* the strings generate_company_overview returns (lines 82, 111, 113, 116)
NotFoundMessage(company) == [kind |-> "not_found", company |-> company, body |-> <<>>]

ApologyMessage(company, e) == [kind |-> "apology", company |-> company, body |-> <<e>>]

QualifiedOverview(company, text) == [kind |-> "qualified", company |-> company, body |-> text]

PlainOverview(text) == [kind |-> "plain", company |-> <<>>, body |-> text]

NoOverview == [kind |-> "none", company |-> <<>>, body |-> <<>>]

\* lines 453-459
Topics == <<"company overview", "roadmap to get a job", "interview preparation", "employee experience", "interview questions">>

\* entries ydl.extract_info can return; the second has no title
Entry1 == [title |-> <<"M", "e", "t", "a", " ", "Q", "A", " ", "i", "n", "t", "e", "r", "v", "i", "e", "w">>, id |-> "v1"]

Entry2 == [title |-> <<>>, id |-> "v2"]

Entry3 == [title |-> <<"C", "o", "o", "k", "i", "n", "g", " ", "a", "t", " ", "h", "o", "m", "e">>, id |-> "v3"]

\* what the extractor can do: raise, return no 'entries', or a list
VideoOutcomes == {[exc |-> "DownloadError", has_entries |-> FALSE, entries |-> <<>>], [exc |-> "none", has_entries |-> FALSE, entries |-> <<>>], [exc |-> "none", has_entries |-> TRUE, entries |-> <<>>], [exc |-> "none", has_entries |-> TRUE, entries |-> <<Entry1, Entry2>>], [exc |-> "none", has_entries |-> TRUE, entries |-> <<Entry3>>]}

\* lines 153-165: the entries with a title and an id
VideosOf(outcome) == IF outcome.has_entries THEN [i \in DOMAIN SelectSeq(outcome.entries, LAMBDA e : e.title # <<>> /\ e.id # "") |-> [title |-> SelectSeq(outcome.entries, LAMBDA e : e.title # <<>> /\ e.id # "")[i].title, video_url |-> SelectSeq(outcome.entries, LAMBDA e : e.title # <<>> /\ e.id # "")[i].id]] ELSE <<>>

\* lines 485-490: videos whose title names the company and a role term
RelevantJobVideos(vs, company, role) == SelectSeq(vs, LAMBDA v : Contains(Lower(v.title), Lower(company)) /\ AnyIn(Split(Lower(role)), Lower(v.title)))

\* lines 63-64: what the user can type
MainCompanies == {<<>>, <<"M", "e", "t", "a">>, <<"A", "c", "m", "e">>}

MainRoles == {<<>>, <<"Q", "A", " ", "D", "e", "v">>}

\* the empty resources of line 506
NeedsFallbackAlways(res) == TRUE

\* `if not resources` (line 506)
NeedsFallback(res) == res = <<>>

(***************************************************************************)
(* State                                                                   *)
(***************************************************************************)

VARIABLES pc, company_name, job_role, overview, calls, topic_idx, videos, trace, gh_company, gh_job_role, max_results, queries, qi, response, gets, all_results, seen_urls, company_resources, ri, result, resources, fallback_consulted

vars == <<pc, company_name, job_role, overview, calls, topic_idx, videos, trace, gh_company, gh_job_role, max_results, queries, qi, response, gets, all_results, seen_urls, company_resources, ri, result, resources, fallback_consulted>>

\* variables of the main script
mainVars == <<company_name, job_role, overview, calls, topic_idx, videos, trace, resources, fallback_consulted>>

\* locals of get_github_resources
paramVars == <<gh_company, gh_job_role, max_results, queries>>

fetchVars == <<qi, response, gets, all_results>>

filterVars == <<seen_urls, company_resources, ri>>

githubVars == <<paramVars, fetchVars, filterVars, result>>

Init ==
    /\ pc = "idle"
    /\ company_name = <<>>
    /\ job_role = <<>>
    /\ overview = NoOverview
    /\ calls = <<>>
    /\ topic_idx = 1
    /\ videos = <<>>
    /\ trace = <<>>
    /\ gh_company = <<>>
    /\ gh_job_role = None
    /\ max_results = DefaultMaxResults
    /\ queries = <<>>
    /\ qi = 1
    /\ response = NoResponse
    /\ gets = <<>>
    /\ all_results = <<>>
    /\ seen_urls = {}
    /\ company_resources = <<>>
    /\ ri = 1
    /\ result = <<>>
    /\ resources = <<>>
    /\ fallback_consulted = FALSE

(***************************************************************************)
(* get_github_resources, step by step                                      *)
(***************************************************************************)

\* lines 196-225: entry of get_github_resources, the query list is built
EnterGithub(c, r, m) ==
    /\ gh_company' = c
    /\ gh_job_role' = NormalizedRole(r)
    /\ max_results' = m
    /\ queries' = BuildQueries(r)
    /\ qi' = 1
    /\ response' = NoResponse
    /\ gets' = <<>>
    /\ all_results' = <<>>
    /\ pc' = "gh_fetch"
    /\ UNCHANGED <<filterVars, result>>

\* a direct call of get_github_resources(company, job_role, max_results)
DirectCall ==
    /\ pc = "idle"
    /\ \E c \in DirectCompanies, r \in DirectRoles, m \in DirectMaxResults :
        /\ company_name' = c
        /\ job_role' = r
        /\ EnterGithub(c, r, m)
    /\ UNCHANGED <<overview, calls, topic_idx, videos, trace, resources, fallback_consulted>>

\* lines 228-245: one iteration of the query loop, one GET; an exception
\* that line 244 does not catch leaves the function ("gh_raised")
Fetch(F, P, maxItems, maxRaw) ==
    /\ pc = "gh_fetch"
    /\ qi <= Len(queries)
    /\ \E resp \in Responses(F, P, Min(maxItems, maxRaw - Len(all_results))) :
        /\ response' = resp
        /\ IF RaisedBy(resp) # "none" /\ ~FetchCatches(RaisedBy(resp))
           THEN /\ pc' = "gh_raised"
                /\ UNCHANGED all_results
           ELSE /\ pc' = pc
                /\ all_results' = all_results \o ItemsOf(resp)
    /\ gets' = Append(gets, queries[qi])
    /\ qi' = qi + 1
    /\ UNCHANGED <<mainVars, paramVars, filterVars, result>>

\* the query loop of a direct call
FetchQuery == Fetch(DirectFailures, Pool, MaxItems, MaxRaw)

\* lines 247-267: after the last query; nothing gathered returns [].  The
\* loop's local `response` is dead from here on and is cleared.
AfterFetch ==
    /\ pc = "gh_fetch"
    /\ qi > Len(queries)
    /\ IF all_results = <<>>
       THEN /\ result' = <<>>
            /\ pc' = "gh_return"
            /\ UNCHANGED filterVars
       ELSE /\ seen_urls' = {}
            /\ company_resources' = <<>>
            /\ ri' = 1
            /\ pc' = "gh_filter"
            /\ UNCHANGED result
    /\ response' = NoResponse
    /\ UNCHANGED <<mainVars, paramVars, qi, gets, all_results>>

\* lines 271-273 and 279-281 and 289: the record is accepted
Accepted(repo, seen, company, role) ==
    /\ ~SkipUrl(repo.html_url, seen)
    /\ CompanyGate(Content(repo), Lower(company))
    /\ KeywordGate(Content(repo), InterviewKeywords(role))

\* line 299 is reached: neither `continue` was taken
ReachesLimitCheck(repo, seen, company) ==
    /\ ~SkipUrl(repo.html_url, seen)
    /\ CompanyGate(Content(repo), Lower(company))

\* lines 290-294
Resource(repo, role) == [name |-> repo.full_name, url |-> repo.html_url, role_specific |-> IsRoleSpecific(Content(repo), role)]

\* the url is never marked as seen
MarkSeenNever(seen, repo, accepted) == seen

\* line 296: the url is marked as seen when the record is accepted
MarkSeen(seen, repo, accepted) == IF accepted THEN seen \cup {repo.html_url} ELSE seen

\* lines 269-300: one iteration of the filter loop; an exception of lines
\* 275-276 leaves the function ("gh_raised"), nothing catches it
FilterRecord ==
    /\ pc = "gh_filter"
    /\ ri <= Len(all_results)
    /\ LET repo == Repos[all_results[ri]]
           raised == ~SkipUrl(repo.html_url, seen_urls) /\ LowerRaises(repo)
           accepted == ~raised /\ Accepted(repo, seen_urls, gh_company, gh_job_role)
           newRes == IF accepted THEN Append(company_resources, Resource(repo, gh_job_role)) ELSE company_resources
           stop == ReachesLimitCheck(repo, seen_urls, gh_company) /\ EnoughResults(Len(newRes), max_results)
       IN  /\ company_resources' = newRes
           /\ seen_urls' = MarkSeen(seen_urls, repo, accepted)
           /\ ri' = ri + 1
           /\ pc' = IF raised THEN "gh_raised" ELSE IF stop \/ ri + 1 > Len(all_results) THEN "gh_sort" ELSE "gh_filter"
    /\ UNCHANGED <<mainVars, paramVars, fetchVars, result>>

\* lines 302-317: prioritize, drop the flag, return the first max_results
FinishFilter ==
    /\ pc = "gh_sort"
    /\ company_resources' = StripRoleField(Prioritize(company_resources, gh_job_role))
    /\ result' = Returned(StripRoleField(Prioritize(company_resources, gh_job_role)), max_results)
    /\ pc' = "gh_return"
    /\ UNCHANGED <<mainVars, paramVars, fetchVars, seen_urls, ri>>

NextGithub == DirectCall \/ FetchQuery \/ AfterFetch \/ FilterRecord \/ FinishFilter

\* get_github_resources called directly
SpecGithub == Init /\ [][NextGithub]_vars

(***************************************************************************)
(* get_improved_fallback_resources called directly                         *)
(***************************************************************************)

DirectFallbackCall ==
    /\ pc = "idle"
    /\ \E c \in FallbackCompanies, r \in FallbackRoles :
        /\ company_name' = c
        /\ job_role' = r
    /\ pc' = "fallback"
    /\ UNCHANGED <<overview, calls, topic_idx, videos, trace, resources, fallback_consulted, githubVars>>

\* line 508 (and the body of get_improved_fallback_resources, lines 319-421)
Fallback ==
    /\ pc = "fallback"
    /\ resources' = FallbackResources(company_name, job_role)
    /\ fallback_consulted' = TRUE
    /\ trace' = Append(trace, "fallback")
    /\ pc' = "display"
    /\ UNCHANGED <<company_name, job_role, overview, calls, topic_idx, videos, githubVars>>

NextFallback == DirectFallbackCall \/ Fallback

SpecFallback == Init /\ [][NextFallback]_vars

(***************************************************************************)
(* The main script: one run after the Research button                      *)
(***************************************************************************)

\* lines 442-447: the button is pressed with the two text inputs
PressResearch ==
    /\ pc = "idle"
    /\ \E c \in MainCompanies, r \in MainRoles :
        /\ company_name' = c
        /\ job_role' = r
        /\ pc' = IF c = <<>> THEN "no_company" ELSE "validate"
    /\ UNCHANGED <<overview, calls, topic_idx, videos, trace, resources, fallback_consulted, githubVars>>

\* lines 72-82 and 115-116: the validation call of generate_company_overview
ValidateCompany ==
    /\ pc = "validate"
    /\ \E out \in ValidationOutcomes :
        /\ calls' = Append(calls, [prompt |-> "validation", exc |-> out.exc, text |-> out.text])
        /\ IF out.exc # "none"
           THEN IF OverviewCatches(out.exc)
                THEN /\ overview' = ApologyMessage(company_name, out.exc)
                     /\ trace' = Append(trace, "overview")
                     /\ pc' = "videos"
                ELSE /\ pc' = "aborted"
                     /\ UNCHANGED <<overview, trace>>
           ELSE IF ~CompanyExists(out.text)
                THEN /\ overview' = NotFoundMessage(company_name)
                     /\ trace' = Append(trace, "overview")
                     /\ pc' = "videos"
                ELSE /\ pc' = "detail"
                     /\ UNCHANGED <<overview, trace>>
    /\ UNCHANGED <<company_name, job_role, topic_idx, videos, resources, fallback_consulted, githubVars>>

\* lines 84-116: the overview call of generate_company_overview
GenerateOverview ==
    /\ pc = "detail"
    /\ \E out \in OverviewOutcomes :
        /\ calls' = Append(calls, [prompt |-> "overview", exc |-> out.exc, text |-> out.text])
        /\ IF out.exc # "none" /\ ~OverviewCatches(out.exc)
           THEN /\ pc' = "aborted"
                /\ UNCHANGED <<overview, trace>>
           ELSE /\ overview' = IF out.exc # "none" THEN ApologyMessage(company_name, out.exc) ELSE IF IsUncertain(out.text) THEN QualifiedOverview(company_name, out.text) ELSE PlainOverview(out.text)
                /\ trace' = Append(trace, "overview")
                /\ pc' = "videos"
    /\ UNCHANGED <<company_name, job_role, topic_idx, videos, resources, fallback_consulted, githubVars>>

\* lines 461-471 with search_youtube_videos (lines 135-168): one topic
SearchTopic ==
    /\ pc = "videos"
    /\ topic_idx <= Len(Topics)
    /\ \E out \in VideoOutcomes :
        IF out.exc # "none" /\ ~VideoCatches(out.exc)
        THEN /\ pc' = "aborted"
             /\ UNCHANGED <<videos, trace, topic_idx>>
        ELSE /\ videos' = IF out.exc # "none" THEN <<>> ELSE VideosOf(out)
             /\ trace' = Append(trace, Topics[topic_idx])
             /\ topic_idx' = topic_idx + 1
             /\ pc' = IF topic_idx < Len(Topics) THEN "videos" ELSE IF Truthy(job_role) THEN "job_videos" ELSE "github"
    /\ UNCHANGED <<company_name, job_role, overview, calls, resources, fallback_consulted, githubVars>>

\* lines 474-498: the job role video section
SearchJobVideos ==
    /\ pc = "job_videos"
    /\ \E out \in VideoOutcomes :
        IF out.exc # "none" /\ ~VideoCatches(out.exc)
        THEN /\ pc' = "aborted"
             /\ UNCHANGED <<videos, trace>>
        ELSE /\ videos' = RelevantJobVideos(IF out.exc # "none" THEN <<>> ELSE VideosOf(out), company_name, job_role)
             /\ trace' = Append(trace, "job videos")
             /\ pc' = "github"
    /\ UNCHANGED <<company_name, job_role, overview, calls, topic_idx, resources, fallback_consulted, githubVars>>

\* line 504: get_github_resources(company_name, job_role)
CallGithub ==
    /\ pc = "github"
    /\ EnterGithub(company_name, job_role, DefaultMaxResults)
    /\ trace' = Append(trace, "github")
    /\ UNCHANGED <<company_name, job_role, overview, calls, topic_idx, videos, resources, fallback_consulted>>

\* the query loop of a run of the script
FetchQueryMain == Fetch(FailureResponses \cup {NoItemsResponse}, MainPool, MaxItems, MaxItems)

\* lines 504-508: the result is bound to resources and tested
ReceiveResources ==
    /\ pc = "gh_return"
    /\ resources' = result
    /\ pc' = IF NeedsFallback(result) THEN "fallback" ELSE "display"
    /\ UNCHANGED <<company_name, job_role, overview, calls, topic_idx, videos, trace, fallback_consulted, githubVars>>

\* lines 510-518: the links, or the warning that there are none
DisplayResources ==
    /\ pc = "display"
    /\ trace' = Append(trace, IF resources # <<>> THEN "resources" ELSE "no resources")
    /\ pc' = "recommended"
    /\ UNCHANGED <<company_name, job_role, overview, calls, topic_idx, videos, resources, fallback_consulted, githubVars>>

\* line 521: display_recommended_resources()
DisplayRecommended ==
    /\ pc = "recommended"
    /\ trace' = Append(trace, "recommended")
    /\ pc' = "done"
    /\ UNCHANGED <<company_name, job_role, overview, calls, topic_idx, videos, resources, fallback_consulted, githubVars>>

Next == PressResearch \/ ValidateCompany \/ GenerateOverview \/ SearchTopic \/ SearchJobVideos \/ CallGithub \/ FetchQueryMain \/ AfterFetch \/ FilterRecord \/ FinishFilter \/ ReceiveResources \/ Fallback \/ DisplayResources \/ DisplayRecommended

Spec == Init /\ [][Next]_vars

\* the script runs to its end: every enabled step is eventually taken
FairSpec == Spec /\ WF_vars(Next)

(***************************************************************************)
(* Properties of get_github_resources                                      *)
(***************************************************************************)

\* a non-blank job role was supplied by the caller
ClaimRoleGiven == job_role # None /\ \E i \in DOMAIN job_role : ~IsSpace(job_role[i])

\* the interview keyword list as the specification describes it
ClaimKeywords == Range(FixedKeywords) \cup (IF ClaimRoleGiven THEN {Lower(Strip(job_role)), RemoveSpaces(Lower(Strip(job_role)))} ELSE {})

\* the haystack of the record at position i of all_results
Haystack(i) == Content(Repos[all_results[i]])

UrlAt(i) == Repos[all_results[i]].html_url

FullNameAt(i) == Repos[all_results[i]].full_name

PassesCompany(i) == Contains(Haystack(i), Lower(company_name))

PassesKeyword(i) == \E kw \in ClaimKeywords : Contains(Haystack(i), kw)

PassesBoth(i) == PassesCompany(i) /\ PassesKeyword(i)

\* positions of all_results a resource can come from
SourcesOf(res) == {i \in DOMAIN all_results : FullNameAt(i) = res.name /\ UrlAt(i) = res.url}

FirstWithUrl(i) == \A h \in DOMAIN all_results : h < i => UrlAt(h) # UrlAt(i)

Returns(i) == \E r \in DOMAIN result : result[r].name = FullNameAt(i)

\* C1: every accepted and every returned resource comes from a record whose
\* haystack contains the lowercased company name and at least one interview
\* keyword; a record failing either gate is never returned.
C1_BothGates ==
    /\ \A r \in DOMAIN result : SourcesOf(result[r]) # {} /\ \A i \in SourcesOf(result[r]) : PassesBoth(i)
    /\ \A r \in DOMAIN company_resources : SourcesOf(company_resources[r]) # {} /\ \A i \in SourcesOf(company_resources[r]) : PassesBoth(i)

\* a resource was returned although the raw list held a record with keywords
\* but not the company and a record with the company but no keyword
C1_Witness ==
    /\ pc = "gh_return"
    /\ result # <<>>
    /\ \E i \in DOMAIN all_results : PassesKeyword(i) /\ ~PassesCompany(i) /\ UrlAt(i) # "None"
    /\ \E i \in DOMAIN all_results : PassesCompany(i) /\ ~PassesKeyword(i)

\* C2 as stated: of two records with the same html_url and different names
\* the later one never appears in the output, whatever both contain.
C2_LaterNeverReturned ==
    pc = "gh_return" =>
        \A i, j \in DOMAIN all_results :
            (i < j /\ FirstWithUrl(i) /\ UrlAt(i) = UrlAt(j) /\ Repos[all_results[i]].name # Repos[all_results[j]].name)
                => ~Returns(j)

\* C2 amended: the later record never appears when the first-encountered
\* record with that url passes both gates; and every returned resource is
\* the first record with its url that passes both gates.
C2_FirstAcceptedKept ==
    pc = "gh_return" =>
        /\ \A i, j \in DOMAIN all_results :
            (i < j /\ FirstWithUrl(i) /\ PassesBoth(i) /\ UrlAt(i) = UrlAt(j) /\ Repos[all_results[i]].name # Repos[all_results[j]].name)
                => ~Returns(j)
        /\ \A r \in DOMAIN result : \E j \in SourcesOf(result[r]) :
            /\ PassesBoth(j)
            /\ \A h \in DOMAIN all_results : (h < j /\ UrlAt(h) = UrlAt(j)) => ~PassesBoth(h)
        /\ \A r, s \in DOMAIN result : result[r].url = result[s].url => r = s

\* two records with one url and different names, both passing the gates:
\* the first is returned
C2_Witness ==
    /\ pc = "gh_return"
    /\ \E i, j \in DOMAIN all_results :
        /\ i < j /\ FirstWithUrl(i) /\ UrlAt(i) = UrlAt(j)
        /\ Repos[all_results[i]].name # Repos[all_results[j]].name
        /\ PassesBoth(i) /\ PassesBoth(j)
        /\ Returns(i)

\* new holds the entries of old, the role-specific ones first, each group in
\* the order it had in old
RoleFirstStable(old, new) ==
    /\ Len(new) = Len(old)
    /\ \A i \in DOMAIN old : \E p \in DOMAIN new : new[p].url = old[i].url /\ new[p].name = old[i].name
    /\ \A i, j \in DOMAIN old : \A p, q \in DOMAIN new :
        (i # j /\ new[p].url = old[i].url /\ new[q].url = old[j].url) =>
            /\ (old[i].role_specific /\ ~old[j].role_specific) => p < q
            /\ (old[i].role_specific = old[j].role_specific /\ i < j) => p < q

SameOrder(old, new) ==
    /\ Len(new) = Len(old)
    /\ \A i \in DOMAIN old : new[i].url = old[i].url /\ new[i].name = old[i].name

\* C3: with a non-blank role the accepted list is reordered role-specific
\* entries first, each group keeping its accepted order; without a role (or
\* with a blank one) the accepted order is unchanged.
C3_RolePriorityStable ==
    [][(pc = "gh_sort" /\ pc' = "gh_return") =>
        IF ClaimRoleGiven
        THEN RoleFirstStable(company_resources, company_resources')
        ELSE SameOrder(company_resources, company_resources')]_vars

\* accepted in the order A (not role specific), B (role specific), G (not
\* role specific), prioritized to B, A, G
C3_Witness ==
    /\ pc = "gh_return"
    /\ ClaimRoleGiven
    /\ all_results = <<"A", "B", "G">>
    /\ company_resources = <<[name |-> "o/b", url |-> "u2"], [name |-> "o/a", url |-> "u1"], [name |-> "o/g", url |-> "u4"]>>

\* C4: at most max_results resources are returned; scanning stops when the
\* accepted count reaches 2 x max_results; the result is the first
\* max_results entries of the prioritized list of the accepted records.
C4_Capped ==
    /\ Len(result) <= max_results
    /\ Len(company_resources) <= 2 * max_results
    /\ pc = "gh_filter" => Len(company_resources) < 2 * max_results
    /\ pc = "gh_return" => result = [i \in 1..Min(max_results, Len(company_resources)) |-> company_resources[i]]

\* scanning stopped at 2 x max_results accepted records while the next raw
\* record would have been accepted too
C4_Witness ==
    /\ pc = "gh_return"
    /\ Len(company_resources) = 2 * max_results
    /\ Len(result) = max_results
    /\ ri <= Len(all_results)
    /\ PassesBoth(ri)
    /\ UrlAt(ri) \notin seen_urls \cup {"None", ""}

NoDescription(i) == Repos[all_results[i]].description \in {None, Missing}

NameAlonePasses(i) ==
    /\ Contains(Lower(Repos[all_results[i]].name), Lower(company_name))
    /\ \E kw \in ClaimKeywords : Contains(Lower(Repos[all_results[i]].name), kw)

\* C5: a record without a description (absent or null) raises nothing and
\* is evaluated on its name: once scanned, if it is the first record with
\* its url and its name alone passes both gates, it is among the accepted.
C5_NoDescriptionEvaluated ==
    /\ pc # "gh_raised"
    /\ pc \in {"gh_filter", "gh_sort", "gh_return"} =>
        \A i \in DOMAIN all_results :
            (i < ri /\ NoDescription(i) /\ NameAlonePasses(i) /\ UrlAt(i) \notin {"None", ""} /\ FirstWithUrl(i))
                => \E r \in DOMAIN company_resources : company_resources[r].name = FullNameAt(i) /\ company_resources[r].url = UrlAt(i)

\* a record with a null description and one without the key were returned
C5_Witness ==
    /\ pc = "gh_return"
    /\ \E i \in DOMAIN all_results : Repos[all_results[i]].description = None /\ Returns(i)
    /\ \E i \in DOMAIN all_results : Repos[all_results[i]].description = Missing /\ Returns(i)

(***************************************************************************)
(* Properties of get_improved_fallback_resources                           *)
(***************************************************************************)

NamesOf(list) == [i \in DOMAIN list |-> list[i].name]

MetaFacebookNames == <<"Meta/Facebook Interview Questions", "Meta Technical Interview Guide", "Facebook Interview Resources">>

FrontendNames == <<"Frontend Interview Questions", "Frontend Interview Handbook">>

\* C6 as stated: company "facebook" with role "frontend" yields only the
\* three Meta/Facebook entries, no role entry is prepended.
C6_FrontendNotPrepended ==
    (fallback_consulted /\ company_name = <<"f", "a", "c", "e", "b", "o", "o", "k">> /\ job_role = <<"f", "r", "o", "n", "t", "e", "n", "d">>)
        => NamesOf(resources) = MetaFacebookNames

\* C6 amended: role_resources has a "frontend" key, so its two entries are
\* prepended to the three Meta/Facebook entries.
C6_FrontendPrepended ==
    (fallback_consulted /\ company_name = <<"f", "a", "c", "e", "b", "o", "o", "k">> /\ job_role = <<"f", "r", "o", "n", "t", "e", "n", "d">>)
        => NamesOf(resources) = FrontendNames \o MetaFacebookNames

\* the lookup for "facebook" / "frontend" has returned
C6_Witness ==
    /\ fallback_consulted
    /\ pc = "display"
    /\ company_name = <<"f", "a", "c", "e", "b", "o", "o", "k">>
    /\ job_role = <<"f", "r", "o", "n", "t", "e", "n", "d">>
    /\ Len(resources) = 5

\* keys of the company mapping that match the input either way
MatchingKeys == {i \in DOMAIN FallbackCompanyKeys : Contains(Lower(company_name), FallbackCompanyKeys[i]) \/ Contains(FallbackCompanyKeys[i], Lower(company_name))}

FirstMatchingKey == CHOOSE i \in MatchingKeys : \A j \in MatchingKeys : i <= j

\* C7: the entries of the first key, in iteration order, that contains the
\* lowercased company or is contained in it are selected (alone when no role
\* is given, last when role entries are prepended); "Facebook" in any case
\* without a role yields the three Meta/Facebook entries; without a matching
\* key the result is empty whatever the role.
C7_FirstMatchWins ==
    fallback_consulted =>
        /\ MatchingKeys = {} => resources = <<>>
        /\ MatchingKeys # {} =>
            /\ Len(resources) >= Len(FallbackCompanyValues[FirstMatchingKey])
            /\ SubSeq(resources, Len(resources) - Len(FallbackCompanyValues[FirstMatchingKey]) + 1, Len(resources)) = FallbackCompanyValues[FirstMatchingKey]
            /\ ~Truthy(job_role) => resources = FallbackCompanyValues[FirstMatchingKey]
        /\ (Lower(company_name) = <<"f", "a", "c", "e", "b", "o", "o", "k">> /\ ~Truthy(job_role)) => NamesOf(resources) = MetaFacebookNames

\* "a" is contained in several keys and the first one, "amazon", is chosen
C7_Witness ==
    /\ fallback_consulted
    /\ company_name = <<"a">>
    /\ job_role = None
    /\ Cardinality(MatchingKeys) > 1
    /\ NamesOf(resources) = <<"Amazon Interview Guide", "Amazon Assessment Questions", "Amazon Interview Questions">>

(***************************************************************************)
(* Properties of the query loop and of the run                             *)
(***************************************************************************)

\* the query failed: exception, status other than 200, body that is not JSON
Failed(resp) == resp.exc # "none" \/ resp.status # 200 \/ resp.body = "malformed"

\* the query sequence the specification describes
ClaimQueries == IF ClaimRoleGiven THEN RoleQueries \o BaseQueries ELSE BaseQueries

\* C8: each query of the sequence gets exactly one GET, in order; a failed
\* query adds nothing and the loop goes on to the next query; a successful
\* one appends its items in their order.
C8_FailureIsolation ==
    /\ [](pc # "gh_raised")
    /\ [](pc \in {"gh_filter", "gh_sort", "gh_return"} => gets = ClaimQueries)
    /\ [][(pc = "gh_fetch" /\ qi' = qi + 1) =>
            /\ pc' = "gh_fetch"
            /\ gets' = Append(gets, ClaimQueries[qi])
            /\ all_results' = all_results \o (IF Failed(response') THEN <<>> ELSE response'.items)]_vars

\* all nine GETs were issued, the last one failed and the items of earlier
\* queries are kept
C8_Witness ==
    /\ pc = "gh_fetch"
    /\ Len(gets) = 9
    /\ Failed(response)
    /\ all_results # <<>>

\* C9 as stated: the fallback table is consulted only when no query
\* returned any item.
C9_FallbackOnlyWithoutRawResults == fallback_consulted => all_results = <<>>

\* C9 amended: the fallback table is consulted exactly when
\* get_github_resources returns the empty list, that is when no gathered
\* record with a url passes both gates (in particular when nothing was
\* gathered); it is not consulted when a resource was returned.
C9_FallbackIffNothingReturned ==
    /\ fallback_consulted => (result = <<>> /\ \A i \in DOMAIN all_results : ~(PassesBoth(i) /\ UrlAt(i) \notin {"None", ""}))
    /\ (pc \in {"display", "recommended", "done"} /\ ~fallback_consulted) => result # <<>>
    /\ (pc \in {"display", "recommended", "done"} /\ all_results = <<>>) => fallback_consulted

\* queries returned records, none was accepted, the fallback was consulted
C9_Witness ==
    /\ fallback_consulted
    /\ all_results # <<>>
    /\ result = <<>>

\* the steps of a complete run, in order
ExpectedTrace == <<"overview">> \o Topics \o (IF Truthy(job_role) THEN <<"job videos">> ELSE <<>>) \o <<"github">> \o (IF result = <<>> THEN <<"fallback">> ELSE <<>>) \o <<IF resources # <<>> THEN "resources" ELSE "no resources", "recommended">>

\* C10: a run started with a company name is never aborted; it attempts
\* every step in order and reaches the recommended-resources table.
C10_RunCompletes ==
    /\ [](pc \notin {"aborted", "gh_raised"})
    /\ [](pc = "done" => trace = ExpectedTrace)
    /\ (pc = "validate") ~> (pc = "done")

\* a run is complete although the model call failed, the last video search
\* gave nothing, no query returned a record and the fallback found nothing
C10_Witness ==
    /\ pc = "done"
    /\ overview.kind = "apology"
    /\ videos = <<>>
    /\ all_results = <<>>
    /\ fallback_consulted
    /\ resources = <<>>
    /\ trace = ExpectedTrace

\* the text the model answered, when generate_company_overview returned it
ModelText == overview.body

\* some phrase of uncertainty_phrases occurs in the text, letter for letter
HasUncertaintyPhrase(text) == AnyIn(UncertaintyPhrases, text)

\* C11: an overview text that contains a phrase of the uncertainty list is
\* returned with the qualifying sentence naming the company in front of it,
\* never bare and never rejected.
C11_UncertainPrefixed ==
    (overview.kind \in {"plain", "qualified"} /\ HasUncertaintyPhrase(ModelText))
        => (overview.kind = "qualified" /\ overview.company = company_name)

\* C11, what the comparison at line 109 does: the text is lower-cased and the
\* phrases are not, so a phrase written with a capital letter never matches;
\* the prefix is put exactly when the lower-cased text contains
\* "insufficient information".
C11_OnlyLowerCasePhraseMatches ==
    overview.kind \in {"plain", "qualified"}
        => (overview.kind = "qualified" <=> Contains(Lower(ModelText), <<"i", "n", "s", "u", "f", "f", "i", "c", "i", "e", "n", "t", " ", "i", "n", "f", "o", "r", "m", "a", "t", "i", "o", "n">>))

\* the model answered "I cannot verify that" and the text came back bare
C11_BareReached ==
    /\ overview.kind = "plain"
    /\ ModelText = <<"I", " ", "c", "a", "n", "n", "o", "t", " ", "v", "e", "r", "i", "f", "y", " ", "t", "h", "a", "t">>

\* generate_company_overview has returned
OverviewReturned == overview.kind # "none"

\* the validation answer contains "yes", whatever the case of its letters
Affirmative(call) == call.exc = "none" /\ Contains(Lower(call.text), <<"y", "e", "s">>)

\* C12: the validation call is the first model call; the overview call is
\* the second and last, made only after an affirmative validation answer; a
\* validation answer that is not affirmative gives one call and the
\* not-found message; a call that raises is the last call and gives the
\* apology with the exception in it.
C12_CallOrder ==
    /\ Len(calls) <= 2
    /\ calls # <<>> => calls[1].prompt = "validation"
    /\ Len(calls) = 2 => (calls[2].prompt = "overview" /\ Affirmative(calls[1]))
    /\ \A i \in DOMAIN calls : calls[i].exc # "none" => i = Len(calls)
    /\ OverviewReturned =>
        /\ calls # <<>>
        /\ Affirmative(calls[1]) => Len(calls) = 2
        /\ (calls[1].exc = "none" /\ ~Affirmative(calls[1]))
               => (Len(calls) = 1 /\ overview = NotFoundMessage(company_name))
        /\ calls[Len(calls)].exc # "none"
               => overview = ApologyMessage(company_name, calls[Len(calls)].exc)
        /\ (Len(calls) = 2 /\ calls[2].exc = "none")
               => (overview.kind \in {"plain", "qualified"} /\ overview.body = calls[2].text)

\* a finished run in which the validation answered "Yes.", the overview call
\* raised, and the apology was returned after exactly two calls
C12_Witness ==
    /\ pc = "done"
    /\ Len(calls) = 2
    /\ calls[1].text = <<"Y", "e", "s", ".">>
    /\ calls[2].exc # "none"
    /\ overview.kind = "apology"

\* a finished run in which the validation answered "No": one call only
C12_NotAffirmativeReached ==
    /\ pc = "done"
    /\ calls = <<[prompt |-> "validation", exc |-> "none", text |-> <<"N", "o">>]>>
    /\ overview.kind = "not_found"

\* no two entries of a list of resources share their url
DistinctUrls(list) == \A i, j \in DOMAIN list : i # j => list[i].url # list[j].url

UrlsOf(list) == {list[i].url : i \in DOMAIN list}

\* C13: at every point of the filter loop and in the returned list no two
\* accepted resources share their url, and the set of seen urls is the set
\* of urls of the accepted resources.
C13_UrlsUnique ==
    /\ DistinctUrls(company_resources)
    /\ seen_urls = UrlsOf(company_resources)
    /\ DistinctUrls(result)
    /\ UrlsOf(result) \subseteq seen_urls

\* three records of one url were gathered: the first fails the keyword gate,
\* the second is accepted, the third would pass both gates and is skipped;
\* one resource of that url is returned
C13_Witness ==
    /\ pc = "gh_return"
    /\ \E i, j, k \in DOMAIN all_results :
        /\ i < j /\ j < k
        /\ UrlAt(i) = UrlAt(j) /\ UrlAt(j) = UrlAt(k)
        /\ ~PassesKeyword(i) /\ PassesBoth(j) /\ PassesBoth(k)
        /\ Returns(j) /\ ~Returns(k)
        /\ seen_urls = {UrlAt(j)}

====
